---- MODULE Spec2Model ----
(***************************************************************************)
(* Study Goal Tracker (src/app.js): the Goal record, the StudyGoalTracker  *)
(* class with its two collections, and its persistence in localStorage     *)
(* under the keys 'sgt_goals' and 'sgt_completed'.                         *)
(*                                                                         *)
(* A JavaScript value that the tracker holds in this.completedGoals is     *)
(* modelled by two variables: completedType, the kind of the value         *)
(* ("array", "null" for null, "object" for a plain object), and            *)
(* completedGoals, its elements when it is an array (<<>> otherwise).      *)
(* this.goals is an array in every state after construction (a non-array   *)
(* makes _sortByPriority throw inside loadFromStorage, whose catch resets  *)
(* both collections).                                                      *)
(*                                                                         *)
(* A stored text is modelled by its JSON syntax tree: [kind, items] with   *)
(* kind "absent" (getItem returns null), "corrupt" (text that JSON.parse   *)
(* rejects), "null" (the text null), "object" (the text {}), or "array",   *)
(* whose items are the members of each object in the order they are        *)
(* written, each <<key, value>>.                                           *)
(*                                                                         *)
(* The operations act on the tracker of the page in front (goals,          *)
(* completedGoals, completedType); other holds the tracker of a second     *)
(* page, which comes to the front by SwitchTab. born is a history          *)
(* variable: born.pending[i] and born.completed[i] are the ranks, in the   *)
(* order of the addGoal calls, of goals[i] and completedGoals[i].          *)
(***************************************************************************)
EXTENDS Integers, Sequences, FiniteSets, TLC

VARIABLES
    goals,           \* this.goals: the pending goals (app.js:21)
    completedGoals,  \* this.completedGoals when it is an array (app.js:22)
    completedType,   \* the kind of value this.completedGoals holds
    store,           \* localStorage: [sgt_goals, sgt_completed]
    now,             \* the last reading of Date.now()
    lastOp,          \* the last call on the tracker: name, arguments, outcome
    other,           \* the tracker of a second page on the same store
    born             \* for each held goal, its rank in the order of creation

vars == <<goals, completedGoals, completedType, store, now, lastOp, other, born>>

---------------------------------------------------------------------------
\* Bounds of the model.

\* at most this many goals are held in pending and completed together
MaxGoals == 3
\* Date.now() reads 0..MaxNow
MaxNow == 1
\* at most this many goals are held where creation ranks are followed
MaxBornGoals == 2
\* at most this many goals are held where searchByTitle and totals are called
MaxReadGoals == 2
\* at most this many goals are held by two pages together
MaxTabGoals == 2
\* the strings Goal.generateId can return: 'g_' + up to 7 base-36 digits
Ids == {"g_a", "g_b"}
\* titles, as sequences of characters; only searchByTitle reads a title,
\* elsewhere it is carried from addGoal through the collections and the store
Titles == {<<"A", "b">>}
\* the priorities passed to addGoal and updatePriority: finite integers
Priorities == {1, 2}
\* the titles where searchByTitle is called, and the terms searched for
SearchTitles == {<<"A", "b">>, <<"b", "C">>}
Terms == {<<>>, <<" ">>, <<"a">>, <<" ", "B", " ">>, <<"b", "c">>, <<"x">>}

---------------------------------------------------------------------------
\* Goal (app.js:4-16)

\* Number(priority) on a finite integer is that integer.
Number(x) == x

\* new Goal(title, priority), with id the value Goal.generateId returned and
\* t the reading of Date.now()
Goal(title, priority, id, t) ==
    [id |-> id, title |-> title, priority |-> Number(priority),
     completed |-> FALSE, createdAt |-> t]

\* Goal.generateId: 'g_' + Math.random().toString(36).slice(2, 9); any of the
\* strings it can return, with nothing that excludes one returned before.
generateId == Ids

---------------------------------------------------------------------------
\* Array helpers

\* Array.prototype.findIndex(g => g.id === id): the 0-based index of the
\* first match, -1 when there is none
findIndex(s, id) ==
    IF \E i \in 1..Len(s) : s[i].id = id
    THEN (CHOOSE i \in 1..Len(s) :
             s[i].id = id /\ \A j \in 1..(i - 1) : s[j].id # id) - 1
    ELSE -1

\* slice(idx, 1) in place of splice: the array keeps every element
sliceKeepsAll(s, idx) == s

\* Array.prototype.splice(idx, 1): the array without its element at the
\* 0-based index idx
splice(s, idx) == SubSeq(s, 1, idx) \o SubSeq(s, idx + 2, Len(s))

\* unshift in place of push: the new element goes first
unshift(s, g) == <<g>> \o s

\* Array.prototype.push
push(s, g) == Append(s, g)

\* the comparator without its tie-break on createdAt
compareNoTieBreak(a, b) == a.priority - b.priority

\* the comparator of _sortByPriority (app.js:94-97)
compare(a, b) ==
    IF a.priority # b.priority
    THEN a.priority - b.priority
    ELSE a.createdAt - b.createdAt

\* one step of a stable sort: x goes after every element that does not
\* compare greater than it
insertSorted(s, x) ==
    LET after == {i \in 1..Len(s) : compare(s[i], x) > 0}
        k == IF after = {} THEN Len(s)
             ELSE (CHOOSE i \in after : \A j \in after : i <= j) - 1
    IN SubSeq(s, 1, k) \o <<x>> \o SubSeq(s, k + 1, Len(s))

RECURSIVE stableSort(_)
\* Array.prototype.sort with the comparator: stable (ECMAScript 2019)
stableSort(s) ==
    IF s = <<>> THEN <<>>
    ELSE insertSorted(stableSort(SubSeq(s, 1, Len(s) - 1)), s[Len(s)])

\* _sortByPriority (app.js:93-98)
sortByPriority(s) == stableSort(s)

---------------------------------------------------------------------------
\* JSON and localStorage

\* getItem returns null for a key that is not set; like the empty string it
\* is falsy, and loadFromStorage then takes [] (app.js:111-112)
Absent == [kind |-> "absent", items |-> <<>>]

\* the members JSON.stringify writes for a goal object, in property order
members(g) ==
    << <<"id", g.id>>, <<"title", g.title>>, <<"priority", g.priority>>,
       <<"completed", g.completed>>, <<"createdAt", g.createdAt>> >>

\* the value of member key in a parsed object
member(obj, key) == obj[CHOOSE i \in 1..Len(obj) : obj[i][1] = key][2]

\* the object JSON.parse builds from the members of one array element
object(obj) ==
    [id |-> member(obj, "id"), title |-> member(obj, "title"),
     priority |-> member(obj, "priority"),
     completed |-> member(obj, "completed"),
     createdAt |-> member(obj, "createdAt")]

\* JSON.stringify of a value of the given type and elements
stringify(type, s) ==
    [kind |-> type, items |-> [i \in 1..Len(s) |-> members(s[i])]]

\* JSON.parse of a stored text that parses: its type and elements
parse(text) ==
    [type |-> text.kind, items |-> [i \in 1..Len(text.items) |-> object(text.items[i])]]

\* saveToStorage that writes the pending key only
saveToStoragePendingOnly(gs, ctype, cs) ==
    [sgt_goals |-> stringify("array", gs),
     sgt_completed |-> store.sgt_completed]

\* saveToStorage (app.js:101-104)
saveToStorage(gs, ctype, cs) ==
    [sgt_goals |-> stringify("array", gs),
     sgt_completed |-> stringify(ctype, cs)]

\* loadFromStorage with the completed list sorted like the pending one
loadFromStorageSortsCompleted(st) ==
    LET g == st.sgt_goals
        c == st.sgt_completed
        empty == [goals |-> <<>>, type |-> "array", completed |-> <<>>]
        gv == IF g.kind # "absent" THEN parse(g) ELSE [type |-> "array", items |-> <<>>]
        cv == IF c.kind # "absent" THEN parse(c) ELSE [type |-> "array", items |-> <<>>]
    IN  IF g.kind = "corrupt" \/ c.kind = "corrupt" THEN empty
        ELSE IF gv.type # "array" THEN empty
        ELSE [goals |-> sortByPriority(gv.items), type |-> cv.type,
              completed |-> sortByPriority(cv.items)]

\* loadFromStorage with one try per key: a key that fails to parse is taken
\* as [], the other key is kept
loadFromStoragePerKey(st) ==
    LET g == st.sgt_goals
        c == st.sgt_completed
        gv == IF g.kind \in {"absent", "corrupt"}
              THEN [type |-> "array", items |-> <<>>] ELSE parse(g)
        cv == IF c.kind \in {"absent", "corrupt"}
              THEN [type |-> "array", items |-> <<>>] ELSE parse(c)
    IN  IF gv.type # "array"
        THEN [goals |-> <<>>, type |-> "array", completed |-> <<>>]
        ELSE [goals |-> sortByPriority(gv.items), type |-> cv.type,
              completed |-> cv.items]

\* loadFromStorage (app.js:107-119): the collections a tracker holds after
\* construction from the stored values
loadFromStorage(st) ==
    LET g == st.sgt_goals
        c == st.sgt_completed
        empty == [goals |-> <<>>, type |-> "array", completed |-> <<>>]
        gv == IF g.kind # "absent" THEN parse(g) ELSE [type |-> "array", items |-> <<>>]
        cv == IF c.kind # "absent" THEN parse(c) ELSE [type |-> "array", items |-> <<>>]
    IN  IF g.kind = "corrupt" \/ c.kind = "corrupt" THEN empty   \* JSON.parse throws
        ELSE IF gv.type # "array" THEN empty             \* this.goals.sort throws
        ELSE [goals |-> sortByPriority(gv.items), type |-> cv.type,
              completed |-> cv.items]

---------------------------------------------------------------------------
\* The tracker's operations

\* the record of a call: its name, the id and priority passed (or generated),
\* and its outcome: "true", "false", "void", "goal" (addGoal returns the new
\* goal) or "throw" (a TypeError reaches the caller)
Op(name, id, pri, ret) == [name |-> name, id |-> id, pri |-> pri, ret |-> ret]

NoId == "none"

\* new StudyGoalTracker() (app.js:20-24)
Construct(st) ==
    LET t == loadFromStorage(st)
    IN  /\ goals' = t.goals
        /\ completedType' = t.type
        /\ completedGoals' = t.completed
        /\ lastOp' = Op("construct", NoId, 0, "void")

\* addGoal (app.js:27-33)
addGoal(title, priority, id, t) ==
    LET g == Goal(title, priority, id, t)
        gs == sortByPriority(push(goals, g))
    IN  /\ goals' = gs
        /\ store' = saveToStorage(gs, completedType, completedGoals)
        /\ now' = t
        /\ lastOp' = Op("addGoal", id, priority, "goal")
        /\ UNCHANGED <<completedGoals, completedType>>

\* completeGoalById, idx === -1 (app.js:38), as a caller that also looks
\* the id up in completed would answer
completeMissingLooksInCompleted(id) ==
    /\ lastOp' = Op("completeGoalById", id, 0,
                    IF findIndex(completedGoals, id) # -1 THEN "true" ELSE "false")
    /\ UNCHANGED <<goals, completedGoals, completedType, store, now>>

\* completeGoalById, idx === -1 (app.js:38)
completeMissing(id) ==
    /\ lastOp' = Op("completeGoalById", id, 0, "false")
    /\ UNCHANGED <<goals, completedGoals, completedType, store, now>>

\* completeGoalById, the goal found at idx, without g.completed = true of
\* app.js:40
completeFoundNoFlag(id, idx) ==
    LET g == goals[idx + 1]
        gs == splice(goals, idx)
    IN  IF completedType = "array"
        THEN /\ goals' = gs
             /\ completedGoals' = push(completedGoals, g)
             /\ store' = saveToStorage(gs, completedType, push(completedGoals, g))
             /\ lastOp' = Op("completeGoalById", id, 0, "true")
             /\ UNCHANGED <<completedType, now>>
        ELSE /\ goals' = gs
             /\ lastOp' = Op("completeGoalById", id, 0, "throw")
             /\ UNCHANGED <<completedGoals, completedType, store, now>>

\* completeGoalById, the goal found at idx (app.js:39-43). With
\* this.completedGoals not an array, push throws after the goal has left
\* this.goals and before the save.
completeFound(id, idx) ==
    LET g == [goals[idx + 1] EXCEPT !.completed = TRUE]
        gs == splice(goals, idx)
    IN  IF completedType = "array"
        THEN /\ goals' = gs
             /\ completedGoals' = push(completedGoals, g)
             /\ store' = saveToStorage(gs, completedType, push(completedGoals, g))
             /\ lastOp' = Op("completeGoalById", id, 0, "true")
             /\ UNCHANGED <<completedType, now>>
        ELSE /\ goals' = gs
             /\ lastOp' = Op("completeGoalById", id, 0, "throw")
             /\ UNCHANGED <<completedGoals, completedType, store, now>>

\* completeGoalById (app.js:36-44)
completeGoalById(id) ==
    LET idx == findIndex(goals, id)
    IN  IF idx = -1 THEN completeMissing(id) ELSE completeFound(id, idx)

\* deleteGoalById, the id found in this.goals, removing the entry after it
deleteFromPendingOffByOne(id, idx) ==
    /\ goals' = splice(goals, idx + 1)
    /\ store' = saveToStorage(splice(goals, idx + 1), completedType, completedGoals)
    /\ lastOp' = Op("deleteGoalById", id, 0, "true")
    /\ UNCHANGED <<completedGoals, completedType, now>>

\* deleteGoalById, the id found in this.goals (app.js:57-61)
deleteFromPending(id, idx) ==
    /\ goals' = splice(goals, idx)
    /\ store' = saveToStorage(splice(goals, idx), completedType, completedGoals)
    /\ lastOp' = Op("deleteGoalById", id, 0, "true")
    /\ UNCHANGED <<completedGoals, completedType, now>>

\* deleteGoalById, the id found in completed, without the save of app.js:65
deleteFromCompletedNoSave(id, idx) ==
    /\ completedGoals' = splice(completedGoals, idx)
    /\ lastOp' = Op("deleteGoalById", id, 0, "true")
    /\ UNCHANGED <<goals, completedType, store, now>>

\* deleteGoalById, the id found in this.completedGoals (app.js:63-67)
deleteFromCompleted(id, idx) ==
    /\ completedGoals' = splice(completedGoals, idx)
    /\ store' = saveToStorage(goals, completedType, splice(completedGoals, idx))
    /\ lastOp' = Op("deleteGoalById", id, 0, "true")
    /\ UNCHANGED <<goals, completedType, now>>

\* deleteGoalById (app.js:55-69). With this.completedGoals not an array,
\* its findIndex (app.js:62) throws once the id is not in this.goals.
deleteGoalById(id) ==
    LET idx == findIndex(goals, id)
        cidx == findIndex(completedGoals, id)
    IN  IF idx # -1 THEN deleteFromPending(id, idx)
        ELSE IF completedType # "array"
        THEN /\ lastOp' = Op("deleteGoalById", id, 0, "throw")
             /\ UNCHANGED <<goals, completedGoals, completedType, store, now>>
        ELSE IF cidx # -1 THEN deleteFromCompleted(id, cidx)
        ELSE /\ lastOp' = Op("deleteGoalById", id, 0, "false")
             /\ UNCHANGED <<goals, completedGoals, completedType, store, now>>

\* updatePriority, !g (app.js:74), as an update that falls back to the
\* completed list would behave
updateMissingReachesCompleted(id, newPriority) ==
    LET cidx == findIndex(completedGoals, id)
    IN  IF cidx = -1
        THEN /\ lastOp' = Op("updatePriority", id, newPriority, "false")
             /\ UNCHANGED <<goals, completedGoals, completedType, store, now>>
        ELSE LET cs == [completedGoals EXCEPT ![cidx + 1].priority = Number(newPriority)]
             IN  /\ completedGoals' = cs
                 /\ store' = saveToStorage(goals, completedType, cs)
                 /\ lastOp' = Op("updatePriority", id, newPriority, "true")
                 /\ UNCHANGED <<goals, completedType, now>>

\* updatePriority, !g (app.js:74)
updateMissing(id, newPriority) ==
    /\ lastOp' = Op("updatePriority", id, newPriority, "false")
    /\ UNCHANGED <<goals, completedGoals, completedType, store, now>>

\* updatePriority, the goal found, with the priority set on every pending
\* goal from the found one on
updateFoundSetsRest(id, newPriority, idx) ==
    LET gs == sortByPriority(
                 [i \in 1..Len(goals) |->
                     IF i >= idx + 1
                     THEN [goals[i] EXCEPT !.priority = Number(newPriority)]
                     ELSE goals[i]])
    IN  /\ goals' = gs
        /\ store' = saveToStorage(gs, completedType, completedGoals)
        /\ lastOp' = Op("updatePriority", id, newPriority, "true")
        /\ UNCHANGED <<completedGoals, completedType, now>>

\* updatePriority, the goal found, without the re-sort of app.js:76
updateFoundNoSort(id, newPriority, idx) ==
    LET gs == [goals EXCEPT ![idx + 1].priority = Number(newPriority)]
    IN  /\ goals' = gs
        /\ store' = saveToStorage(gs, completedType, completedGoals)
        /\ lastOp' = Op("updatePriority", id, newPriority, "true")
        /\ UNCHANGED <<completedGoals, completedType, now>>

\* updatePriority, the goal found (app.js:75-78)
updateFound(id, newPriority, idx) ==
    LET gs == sortByPriority([goals EXCEPT ![idx + 1].priority = Number(newPriority)])
    IN  /\ goals' = gs
        /\ store' = saveToStorage(gs, completedType, completedGoals)
        /\ lastOp' = Op("updatePriority", id, newPriority, "true")
        /\ UNCHANGED <<completedGoals, completedType, now>>

\* updatePriority (app.js:72-79); find returns the first goal with the id
updatePriority(id, newPriority) ==
    LET idx == findIndex(goals, id)
    IN  IF idx = -1 THEN updateMissing(id, newPriority)
        ELSE updateFound(id, newPriority, idx)

\* clearCompleted as a removal of the oldest completed goal only
clearCompletedOldestOnly ==
    /\ completedGoals' = SubSeq(completedGoals, 2, Len(completedGoals))
    /\ completedType' = "array"
    /\ store' = saveToStorage(goals, "array", SubSeq(completedGoals, 2, Len(completedGoals)))
    /\ lastOp' = Op("clearCompleted", NoId, 0, "void")
    /\ UNCHANGED <<goals, now>>

\* clearCompleted (app.js:82-85)
clearCompleted ==
    /\ completedGoals' = <<>>
    /\ completedType' = "array"
    /\ store' = saveToStorage(goals, "array", <<>>)
    /\ lastOp' = Op("clearCompleted", NoId, 0, "void")
    /\ UNCHANGED <<goals, now>>

\* String.prototype.toLowerCase, on one character
lowerChar(c) ==
    CASE c = "A" -> "a"
      [] c = "B" -> "b"
      [] c = "C" -> "c"
      [] OTHER -> c

\* toLowerCase that leaves every character as it is
toLowerCaseNone(s) == s

\* String.prototype.toLowerCase
toLowerCase(s) == [i \in 1..Len(s) |-> lowerChar(s[i])]

RECURSIVE trimStart(_)
trimStart(s) ==
    IF s # <<>> /\ Head(s) = " " THEN trimStart(Tail(s)) ELSE s

RECURSIVE trimEnd(_)
trimEnd(s) ==
    IF s # <<>> /\ s[Len(s)] = " " THEN trimEnd(SubSeq(s, 1, Len(s) - 1)) ELSE s

\* String.prototype.trim
trim(s) == trimEnd(trimStart(s))

\* String.prototype.includes
includes(s, q) ==
    \E k \in 0..(Len(s) - Len(q)) : SubSeq(s, k + 1, k + Len(q)) = q

\* Array.prototype.filter(g => g.title.toLowerCase().includes(q))
filterByTitle(s, q) ==
    SelectSeq(s, LAMBDA g : includes(toLowerCase(g.title), q))

\* what searchByTitle(term) gives over pending gs and completed cs of type
\* ctype (app.js:47-52): ret "array" with the goals found, or "throw" when
\* this.completedGoals has no filter method
searchResult(gs, ctype, cs, term) ==
    LET q == toLowerCase(trim(term))
    IN  IF q = <<>> THEN [ret |-> "array", found |-> <<>>]
        ELSE IF ctype # "array" THEN [ret |-> "throw", found |-> <<>>]
        ELSE [ret |-> "array",
              found |-> filterByTitle(gs, q) \o filterByTitle(cs, q)]

\* searchByTitle (app.js:47-52)
searchByTitle(term) ==
    /\ lastOp' = Op("searchByTitle", NoId, 0,
                    searchResult(goals, completedType, completedGoals, term).ret)
    /\ UNCHANGED <<goals, completedGoals, completedType, store, now>>

\* what totals() gives (app.js:88-90): reading length of null throws, of an
\* object without one gives undefined, written -1
totalsResult(gs, ctype, cs) ==
    [ret |-> IF ctype = "null" THEN "throw" ELSE "value",
     pending |-> Len(gs),
     completed |-> IF ctype = "array" THEN Len(cs) ELSE -1]

\* totals (app.js:88-90)
totals ==
    /\ lastOp' = Op("totals", NoId, 0,
                    totalsResult(goals, completedType, completedGoals).ret)
    /\ UNCHANGED <<goals, completedGoals, completedType, store, now>>

\* a page reload that saves what it loaded
ReloadWritesBack ==
    /\ Construct(store)
    /\ store' = saveToStorage(goals', completedType', completedGoals')
    /\ UNCHANGED now

\* a page reload: a tracker constructed from the store replaces this one
\* (app.js:123)
Reload ==
    /\ Construct(store)
    /\ UNCHANGED <<store, now>>

---------------------------------------------------------------------------
\* Specifications

\* the ids a caller passes: those generateId can return and one it cannot
CallIds == Ids \cup {"g_x"}

\* a fresh browser profile: nothing is stored
EmptyStore == [sgt_goals |-> Absent, sgt_completed |-> Absent]

\* no second page is open
NoTracker == [goals |-> <<>>, type |-> "array", completed |-> <<>>]

\* creation ranks are not followed
NoBirths == [pending |-> <<>>, completed |-> <<>>]

\* the state after new StudyGoalTracker() over the stored values st
Constructed(st) ==
    /\ store = st
    /\ now = 0
    /\ LET t == loadFromStorage(st)
       IN  /\ goals = t.goals
           /\ completedType = t.type
           /\ completedGoals = t.completed
    /\ lastOp = Op("construct", NoId, 0, "void")
    /\ other = NoTracker
    /\ born = NoBirths

Init == Constructed(EmptyStore)

Next ==
    \/ /\ Len(goals) + Len(completedGoals) < MaxGoals
       /\ \E title \in Titles, p \in Priorities, id \in generateId, t \in now..MaxNow :
              addGoal(title, p, id, t)
       /\ UNCHANGED <<other, born>>
    \/ (\E id \in CallIds : completeGoalById(id)) /\ UNCHANGED <<other, born>>
    \/ (\E id \in CallIds : deleteGoalById(id)) /\ UNCHANGED <<other, born>>
    \/ (\E id \in CallIds, p \in Priorities : updatePriority(id, p))
          /\ UNCHANGED <<other, born>>
    \/ clearCompleted /\ UNCHANGED <<other, born>>
    \/ Reload /\ UNCHANGED <<other, born>>

\* the tracker of one page over a store that starts empty
Spec == Init /\ [][Next]_vars

\* Creation ranks.  The history variable born follows every goal through the
\* operations: the same findIndex, splice, push and sort are applied to the
\* goals tagged with their ranks.

RECURSIVE tagged(_, _)
\* the goals gs, each with its creation rank from ranks
tagged(gs, ranks) ==
    IF gs = <<>> THEN <<>>
    ELSE <<[id |-> Head(gs).id, priority |-> Head(gs).priority,
            createdAt |-> Head(gs).createdAt, born |-> Head(ranks)]>>
         \o tagged(Tail(gs), Tail(ranks))

\* the pending goals, each with its creation rank
Tagged == tagged(goals, born.pending)

\* the ranks 1..n of the ranks in pending p and completed c, order kept
Reranked(p, c) ==
    LET held == {p[i] : i \in 1..Len(p)} \cup {c[i] : i \in 1..Len(c)}
        rank(x) == Cardinality({y \in held : y <= x})
    IN  [pending |-> [i \in 1..Len(p) |-> rank(p[i])],
         completed |-> [i \in 1..Len(c) |-> rank(c[i])]]

\* addGoal (app.js:28-30): the new goal is the youngest
bornAddGoal(priority, id, t) ==
    LET g == [id |-> id, priority |-> Number(priority), createdAt |-> t,
              born |-> Len(goals) + Len(completedGoals) + 1]
        gs == sortByPriority(push(Tagged, g))
    IN  born' = [pending |-> [i \in 1..Len(gs) |-> gs[i].born],
                 completed |-> born.completed]

\* completeGoalById (app.js:37-41)
bornCompleteGoalById(id) ==
    LET idx == findIndex(goals, id)
    IN  IF idx = -1 THEN UNCHANGED born
        ELSE IF completedType = "array"
        THEN born' = [pending |-> splice(born.pending, idx),
                      completed |-> push(born.completed, born.pending[idx + 1])]
        ELSE born' = Reranked(splice(born.pending, idx), born.completed)

\* deleteGoalById (app.js:56-64)
bornDeleteGoalById(id) ==
    LET idx == findIndex(goals, id)
        cidx == findIndex(completedGoals, id)
    IN  IF idx # -1
        THEN born' = Reranked(splice(born.pending, idx), born.completed)
        ELSE IF completedType = "array" /\ cidx # -1
        THEN born' = Reranked(born.pending, splice(born.completed, cidx))
        ELSE UNCHANGED born

\* updatePriority (app.js:73-76)
bornUpdatePriority(id, newPriority) ==
    LET idx == findIndex(goals, id)
    IN  IF idx = -1 THEN UNCHANGED born
        ELSE LET gs == sortByPriority(
                     [Tagged EXCEPT ![idx + 1].priority = Number(newPriority)])
             IN  born' = [pending |-> [i \in 1..Len(gs) |-> gs[i].born],
                          completed |-> born.completed]

\* clearCompleted (app.js:83)
bornClearCompleted == born' = Reranked(born.pending, <<>>)

\* the operations of one page, with the creation ranks followed.  A reload
\* finds in the store the collections as they are in memory (nothing
\* throws over a store that starts empty) and its sort of the sorted
\* pending list moves nothing.
NextBorn ==
    \/ /\ Len(goals) + Len(completedGoals) < MaxBornGoals
       /\ \E title \in Titles, p \in Priorities, id \in generateId, t \in now..MaxNow :
              addGoal(title, p, id, t) /\ bornAddGoal(p, id, t)
       /\ UNCHANGED other
    \/ (\E id \in CallIds : completeGoalById(id) /\ bornCompleteGoalById(id))
          /\ UNCHANGED other
    \/ (\E id \in CallIds : deleteGoalById(id) /\ bornDeleteGoalById(id))
          /\ UNCHANGED other
    \/ (\E id \in CallIds, p \in Priorities :
             updatePriority(id, p) /\ bornUpdatePriority(id, p))
          /\ UNCHANGED other
    \/ clearCompleted /\ bornClearCompleted /\ UNCHANGED other
    \/ Reload /\ UNCHANGED <<other, born>>

SpecBorn == Init /\ [][NextBorn]_vars

\* the operations of one page, searchByTitle and totals among them
NextRead ==
    \/ /\ Len(goals) + Len(completedGoals) < MaxReadGoals
       /\ \E title \in SearchTitles, p \in Priorities, id \in generateId,
             t \in now..MaxNow : addGoal(title, p, id, t)
       /\ UNCHANGED <<other, born>>
    \/ (\E id \in CallIds : completeGoalById(id)) /\ UNCHANGED <<other, born>>
    \/ (\E id \in CallIds : deleteGoalById(id)) /\ UNCHANGED <<other, born>>
    \/ (\E id \in CallIds, p \in Priorities : updatePriority(id, p))
          /\ UNCHANGED <<other, born>>
    \/ clearCompleted /\ UNCHANGED <<other, born>>
    \/ Reload /\ UNCHANGED <<other, born>>
    \/ (\E term \in Terms : searchByTitle(term)) /\ UNCHANGED <<other, born>>
    \/ totals /\ UNCHANGED <<other, born>>

\* one page over a store that starts empty, with searches
SpecSearch == Init /\ [][NextRead]_vars

\* the page in the background comes to the front; each page keeps its own
\* tracker (app.js:123) and both use the one localStorage
SwitchTab ==
    /\ goals' = other.goals
    /\ completedType' = other.type
    /\ completedGoals' = other.completed
    /\ other' = [goals |-> goals, type |-> completedType,
                  completed |-> completedGoals]
    /\ lastOp' = Op("switchTab", NoId, 0, "void")
    /\ UNCHANGED <<store, now, born>>

\* the goals two pages hold together
HeldByBoth ==
    Len(goals) + Len(completedGoals) + Len(other.goals) + Len(other.completed)

\* two pages, both constructed over the empty store, one acting at a time
NextTabs ==
    \/ /\ HeldByBoth < MaxTabGoals
       /\ \E title \in Titles, p \in Priorities, id \in generateId, t \in now..MaxNow :
              addGoal(title, p, id, t)
       /\ UNCHANGED <<other, born>>
    \/ (\E id \in CallIds : completeGoalById(id)) /\ UNCHANGED <<other, born>>
    \/ (\E id \in CallIds : deleteGoalById(id)) /\ UNCHANGED <<other, born>>
    \/ (\E id \in CallIds, p \in Priorities : updatePriority(id, p))
          /\ UNCHANGED <<other, born>>
    \/ clearCompleted /\ UNCHANGED <<other, born>>
    \/ /\ HeldByBoth - Len(goals) - Len(completedGoals)
            + Len(store.sgt_goals.items) + Len(store.sgt_completed.items)
              <= MaxTabGoals
       /\ Reload
       /\ UNCHANGED <<other, born>>
    \/ SwitchTab

SpecTabs == Init /\ [][NextTabs]_vars

\* stored texts found at construction that no save of this program wrote
Corrupt == [kind |-> "corrupt", items |-> <<>>]
NullText == [kind |-> "null", items |-> <<>>]
ObjectText == [kind |-> "object", items |-> <<>>]

StoredPending ==
    stringify("array", <<Goal(<<"A", "b">>, 1, "g_a", 0)>>)
StoredCompleted ==
    stringify("array", <<[Goal(<<"A", "b">>, 2, "g_b", 0) EXCEPT !.completed = TRUE]>>)

StoredValues ==
    [sgt_goals : {Absent, Corrupt, NullText, ObjectText, StoredPending},
     sgt_completed : {Absent, Corrupt, NullText, ObjectText, StoredCompleted}]

InitStored == \E st \in StoredValues : Constructed(st)

\* a stored pending sequence that is not in priority order
StoredUnsorted ==
    stringify("array", <<Goal(<<"A", "b">>, 2, "g_a", 0),
                         Goal(<<"b", "C">>, 1, "g_b", 0)>>)

\* stored values of each kind the read-only operations can meet
StoredReadValues ==
    {[sgt_goals |-> Corrupt, sgt_completed |-> StoredCompleted],
     [sgt_goals |-> StoredPending, sgt_completed |-> Corrupt],
     [sgt_goals |-> NullText, sgt_completed |-> Absent],
     [sgt_goals |-> StoredPending, sgt_completed |-> NullText],
     [sgt_goals |-> StoredPending, sgt_completed |-> StoredCompleted],
     [sgt_goals |-> StoredUnsorted, sgt_completed |-> Absent]}

InitStoredRead == \E st \in StoredReadValues : Constructed(st)

\* one page over whichever values the store holds at first, with searches
SpecStoredRead == InitStoredRead /\ [][NextRead]_vars

\* the tracker of one page over whichever values the store holds at first
SpecStored == InitStored /\ [][Next]_vars

---------------------------------------------------------------------------
\* Properties

\* the entries of s with the one at the 1-based position k left out
Without(s, k) == [i \in 1..(Len(s) - 1) |-> IF i < k THEN s[i] ELSE s[i + 1]]

\* how many entries of s carry the id
CountId(s, id) == Cardinality({i \in 1..Len(s) : s[i].id = id})

InPending(id) == \E i \in 1..Len(goals) : goals[i].id = id
InCompleted(id) == \E i \in 1..Len(completedGoals) : completedGoals[i].id = id

\* C1: pending is sorted: every adjacent pair a, b has a.priority <
\* b.priority, or equal priorities and a.createdAt <= b.createdAt.
C1_PendingSorted ==
    \A i \in 1..(Len(goals) - 1) :
        \/ goals[i].priority < goals[i + 1].priority
        \/ /\ goals[i].priority = goals[i + 1].priority
           /\ goals[i].createdAt <= goals[i + 1].createdAt

\* three pending goals of both priorities and both clock readings, just
\* re-sorted by an updatePriority that succeeded
C1_Witness ==
    /\ lastOp.name = "updatePriority" /\ lastOp.ret = "true"
    /\ Len(goals) = 3
    /\ goals[1].priority # goals[3].priority
    /\ \E i, j \in 1..3 : goals[i].createdAt # goals[j].createdAt

\* C2: no two goal records in pending and completed together have the same
\* id.
C2_IdsUnique ==
    LET all == goals \o completedGoals
    IN  \A i, j \in 1..Len(all) : i # j => all[i].id # all[j].id

\* C3: every step changes the number of records held under each id, in
\* pending and completed together, by exactly what the call asks for: one
\* more for the id addGoal generated, one less for the id a successful
\* deleteGoalById removed, less the completed ones for clearCompleted, and
\* no change for completeGoalById, updatePriority, a failed call and a
\* reload. So a goal is never lost, duplicated or held in both.
C3_HeldExactlyOnce ==
    [][\A id \in Ids :
          CountId(goals', id) + CountId(completedGoals', id)
            = CountId(goals, id) + CountId(completedGoals, id)
              + (IF lastOp'.name = "addGoal" /\ lastOp'.id = id THEN 1 ELSE 0)
              - (IF lastOp'.name = "deleteGoalById" /\ lastOp'.ret = "true"
                    /\ lastOp'.id = id THEN 1 ELSE 0)
              - (IF lastOp'.name = "clearCompleted"
                 THEN CountId(completedGoals, id) ELSE 0)]_vars

\* a goal has just moved to completed, beside one still pending and one
\* completed before
C3_Witness ==
    /\ lastOp.name = "completeGoalById" /\ lastOp.ret = "true"
    /\ Len(goals) = 1 /\ Len(completedGoals) = 2
    /\ \A id \in Ids : CountId(goals, id) + CountId(completedGoals, id) >= 1

\* C4: completeGoalById(id) with id in pending returns true, takes exactly
\* one entry with that id out of pending (the others keep their order), and
\* appends it to completed with completed = true; the earlier entries of
\* completed stay and the total count is unchanged.
C4_CompleteMoves ==
    [][(lastOp'.name = "completeGoalById" /\ InPending(lastOp'.id)) =>
          /\ lastOp'.ret = "true"
          /\ \E k \in 1..Len(goals) :
                /\ goals[k].id = lastOp'.id
                /\ goals' = Without(goals, k)
                /\ completedGoals' =
                       completedGoals \o <<[goals[k] EXCEPT !.completed = TRUE]>>
          /\ Len(goals') + Len(completedGoals') = Len(goals) + Len(completedGoals)]_vars

\* a completion that left one goal pending and found one completed before
C4_Witness ==
    /\ lastOp.name = "completeGoalById" /\ lastOp.ret = "true"
    /\ Len(goals) >= 1 /\ Len(completedGoals) >= 2
    /\ completedGoals[Len(completedGoals)].id = lastOp.id
    /\ completedGoals[Len(completedGoals)].completed

\* C5: completeGoalById(id) with id not in pending returns false and leaves
\* pending, completed and both stored values as they were.
C5_CompleteMissing ==
    [][(lastOp'.name = "completeGoalById" /\ ~InPending(lastOp'.id)) =>
          /\ lastOp'.ret = "false"
          /\ UNCHANGED <<goals, completedGoals, store>>]_vars

\* completeGoalById has returned false for an id that is held in completed
C5_Witness ==
    /\ lastOp.name = "completeGoalById" /\ lastOp.ret = "false"
    /\ InCompleted(lastOp.id) /\ Len(goals) >= 1

\* C6: deleteGoalById(id) with id in pending or completed returns true and
\* removes one entry with that id from the collection that holds it
\* (pending first), leaving the other collection and the order of the rest;
\* with id in neither it returns false and changes neither collection nor
\* the store.
C6_Delete ==
    [][(lastOp'.name = "deleteGoalById") =>
          IF InPending(lastOp'.id)
          THEN /\ lastOp'.ret = "true"
               /\ \E k \in 1..Len(goals) :
                     goals[k].id = lastOp'.id /\ goals' = Without(goals, k)
               /\ completedGoals' = completedGoals
          ELSE IF InCompleted(lastOp'.id)
          THEN /\ lastOp'.ret = "true"
               /\ \E k \in 1..Len(completedGoals) :
                     /\ completedGoals[k].id = lastOp'.id
                     /\ completedGoals' = Without(completedGoals, k)
               /\ goals' = goals
          ELSE /\ lastOp'.ret = "false"
               /\ UNCHANGED <<goals, completedGoals, store>>]_vars

\* a delete that succeeded and left two entries in one collection
C6_Witness ==
    /\ lastOp.name = "deleteGoalById" /\ lastOp.ret = "true"
    /\ (Len(goals) = 2 \/ Len(completedGoals) = 2)

\* a delete of an id held nowhere
C6_WitnessMissing ==
    /\ lastOp.name = "deleteGoalById" /\ lastOp.ret = "false"
    /\ Len(goals) >= 1 /\ Len(completedGoals) >= 1

\* C7: updatePriority(id, p) with id not in pending returns false and leaves
\* pending, completed and the store; and in every step each entry of
\* completed either was in completed before, unchanged, or is the pending
\* goal just completed, with the priority and title it had in pending.
C7_CompletedFrozen ==
    [][/\ (lastOp'.name = "updatePriority" /\ ~InPending(lastOp'.id)) =>
             /\ lastOp'.ret = "false"
             /\ UNCHANGED <<goals, completedGoals, store>>
       /\ \A j \in 1..Len(completedGoals') :
             \/ \E i \in 1..Len(completedGoals) :
                   completedGoals[i] = completedGoals'[j]
             \/ \E i \in 1..Len(goals) :
                   /\ lastOp'.name = "completeGoalById"
                   /\ [goals[i] EXCEPT !.completed = TRUE] = completedGoals'[j]]_vars

\* updatePriority has returned false for an id held in completed only
C7_Witness ==
    /\ lastOp.name = "updatePriority" /\ lastOp.ret = "false"
    /\ InCompleted(lastOp.id) /\ ~InPending(lastOp.id)
    /\ \E i \in 1..Len(completedGoals) :
          completedGoals[i].id = lastOp.id /\ completedGoals[i].priority # lastOp.pri

\* C8: clearCompleted leaves completed empty and pending exactly as before.
C8_ClearCompleted ==
    [][(lastOp'.name = "clearCompleted") =>
          completedGoals' = <<>> /\ goals' = goals]_vars

\* clearCompleted has run with two goals pending
C8_Witness ==
    /\ lastOp.name = "clearCompleted"
    /\ completedGoals = <<>> /\ Len(goals) = 2
    /\ store.sgt_completed = stringify("array", <<>>)

\* C9: saving the current collections and constructing a tracker from the
\* store gives the same goals, with the same fields, in the same order in
\* both collections.
C9_RoundTrip ==
    LET t == loadFromStorage(saveToStorage(goals, completedType, completedGoals))
    IN  /\ t.goals = goals
        /\ t.completed = completedGoals
        /\ t.type = completedType

\* a tracker just constructed from what was saved, with two pending goals of
\* equal priority and one completed
C9_Witness ==
    /\ lastOp.name = "construct"
    /\ Len(goals) = 2 /\ Len(completedGoals) = 1
    /\ goals[1].priority = goals[2].priority
    /\ store = saveToStorage(goals, completedType, completedGoals)

\* C10: right after addGoal, clearCompleted, and completeGoalById,
\* deleteGoalById and updatePriority when they return true, the two stored
\* values are the serialization of the current pending and completed.
C10_WriteThrough ==
    [][(\/ lastOp'.name \in {"addGoal", "clearCompleted"}
        \/ /\ lastOp'.name \in {"completeGoalById", "deleteGoalById", "updatePriority"}
           /\ lastOp'.ret = "true") =>
          /\ store'.sgt_goals = stringify("array", goals')
          /\ store'.sgt_completed = stringify(completedType', completedGoals')]_vars

\* a completed goal has been deleted and the store holds what is left
C10_Witness ==
    /\ lastOp.name = "deleteGoalById" /\ lastOp.ret = "true"
    /\ ~InPending(lastOp.id)
    /\ Len(completedGoals) = 1 /\ Len(goals) = 1
    /\ store.sgt_completed = stringify("array", completedGoals)

\* a tracker constructed over a stored null has added a goal
C10_WitnessStored ==
    /\ lastOp.name = "addGoal" /\ completedType = "null"
    /\ store.sgt_completed = NullText

\* C11: after construction, a key that is absent gives an empty collection
\* for that key, and a stored value that fails to deserialize under either
\* key leaves both pending and completed empty, whatever the other key
\* holds; the constructor returns normally.
C11_LoadFallback ==
    lastOp.name = "construct" =>
        /\ lastOp.ret = "void"
        /\ store.sgt_goals = Absent => goals = <<>>
        /\ store.sgt_completed = Absent =>
               completedGoals = <<>> /\ completedType = "array"
        /\ (store.sgt_goals = Corrupt \/ store.sgt_completed = Corrupt) =>
               /\ goals = <<>>
               /\ completedGoals = <<>>
               /\ completedType = "array"

\* constructed over an unparseable completed text beside a stored pending
\* goal: both collections are empty
C11_Witness ==
    /\ lastOp.name = "construct"
    /\ store.sgt_goals = StoredPending /\ store.sgt_completed = Corrupt
    /\ goals = <<>> /\ completedGoals = <<>>

\* constructed over a stored pending goal with the completed key absent
C11_WitnessAbsent ==
    /\ lastOp.name = "construct"
    /\ store.sgt_completed = Absent /\ Len(goals) = 1
    /\ completedGoals = <<>>

RECURSIVE IsSubsequence(_, _)
\* a is b with some entries left out, the rest in b's order
IsSubsequence(a, b) ==
    IF a = <<>> THEN TRUE
    ELSE IF b = <<>> THEN FALSE
    ELSE IF Head(a) = Head(b) /\ IsSubsequence(Tail(a), Tail(b)) THEN TRUE
    ELSE IsSubsequence(a, Tail(b))

\* C12: completed keeps completion order: a step of completeGoalById puts
\* the goal after every entry completed before, and every step (addGoal,
\* updatePriority, deleteGoalById, clearCompleted, a reload) leaves the
\* entries that stay in completed in the order they had.
C12_CompletionOrder ==
    [][IF lastOp'.name = "completeGoalById" /\ lastOp'.ret = "true"
       THEN /\ Len(completedGoals') = Len(completedGoals) + 1
            /\ SubSeq(completedGoals', 1, Len(completedGoals)) = completedGoals
            /\ completedGoals'[Len(completedGoals')].id = lastOp'.id
       ELSE IsSubsequence(completedGoals', completedGoals)]_vars

\* a tracker just constructed from the store holds two completed goals, the
\* one of lower priority value second
C12_Witness ==
    /\ lastOp.name = "construct"
    /\ Len(completedGoals) = 2
    /\ compare(completedGoals[1], completedGoals[2]) > 0
    /\ store.sgt_completed = stringify("array", completedGoals)

\* C13 as claimed: of two pending goals with equal priority, the one
\* created by the earlier addGoal call comes first (stated for two goals that
\* their ids tell apart).
C13_CreationOrder ==
    \A i, j \in 1..Len(goals) :
        (i < j /\ goals[i].priority = goals[j].priority
               /\ goals[i].id # goals[j].id) =>
            born.pending[i] < born.pending[j]

\* C13 as amended: of two pending goals with equal priority and different
\* createdAt readings, the one created by the earlier addGoal call comes
\* first.
C13_CreationOrderByReading ==
    \A i, j \in 1..Len(goals) :
        (/\ i < j
         /\ goals[i].priority = goals[j].priority
         /\ goals[i].createdAt # goals[j].createdAt) =>
            born.pending[i] < born.pending[j]

\* two pending goals of equal priority and different readings, after an
\* updatePriority that succeeded
C13_Witness ==
    /\ lastOp.name = "updatePriority" /\ lastOp.ret = "true"
    /\ Len(goals) = 2
    /\ goals[1].priority = goals[2].priority
    /\ goals[1].createdAt < goals[2].createdAt
    /\ born.pending = <<1, 2>>

\* the characters a and b are the same letter, whatever their case
SameLetter(a, b) ==
    \/ a = b
    \/ {a, b} \in {{"a", "A"}, {"b", "B"}, {"c", "C"}}

\* the positions of term that are not spaces
Inked(term) == {i \in 1..Len(term) : term[i] # " "}

\* term occurs in title from position k on, ignoring case, once the spaces
\* before its first and after its last other character are left out
OccursAt(title, term, k) ==
    LET first == CHOOSE i \in Inked(term) : \A j \in Inked(term) : i <= j
        last == CHOOSE i \in Inked(term) : \A j \in Inked(term) : j <= i
    IN  /\ k + (last - first) <= Len(title)
        /\ \A n \in first..last : SameLetter(title[k + (n - first)], term[n])

Matches(g, term) == \E k \in 1..Len(g.title) : OccursAt(g.title, term, k)

\* s is the entries of all that match term, in the order of all
IsMatchesOf(s, all, term) ==
    \E pos \in [1..Len(s) -> 1..Len(all)] :
        /\ \A i, j \in 1..Len(s) : i < j => pos[i] < pos[j]
        /\ \A i \in 1..Len(s) : s[i] = all[pos[i]]
        /\ \A n \in 1..Len(all) :
              Matches(all[n], term) <=> \E i \in 1..Len(s) : pos[i] = n

\* C14: searchByTitle(term) gives the empty sequence for an empty or blank
\* term, and otherwise the pending goals whose title contains the trimmed
\* term ignoring case, in pending order, followed by the completed goals
\* that match, in completed order; the call changes neither collection nor
\* the store.
C14_Search ==
    /\ [](\A term \in Terms :
            LET r == searchResult(goals, completedType, completedGoals, term)
            IN  /\ r.ret = "array"
                /\ IF Inked(term) = {} THEN r.found = <<>>
                   ELSE \E n \in 0..Len(r.found) :
                          /\ IsMatchesOf(SubSeq(r.found, 1, n), goals, term)
                          /\ IsMatchesOf(SubSeq(r.found, n + 1, Len(r.found)),
                                         completedGoals, term))
    /\ [][lastOp'.name = "searchByTitle" =>
             /\ lastOp'.ret = "array"
             /\ UNCHANGED <<goals, completedGoals, completedType, store>>]_vars

\* a search has run over one pending and one completed goal with different
\* titles; one term finds both, pending first, and another only the
\* completed one, whose title has it in the other case
C14_Witness ==
    /\ lastOp.name = "searchByTitle"
    /\ Len(goals) = 1 /\ Len(completedGoals) = 1
    /\ goals[1].title = <<"A", "b">> /\ completedGoals[1].title = <<"b", "C">>
    /\ searchResult(goals, completedType, completedGoals, <<" ", "B", " ">>).found
         = goals \o completedGoals
    /\ searchResult(goals, completedType, completedGoals, <<"b", "c">>).found
         = completedGoals

\* how many entries of s equal r
CountOf(s, r) == Cardinality({i \in 1..Len(s) : s[i] = r})

\* a and b hold the same entries, each as often
SameEntries(a, b) ==
    /\ Len(a) = Len(b)
    /\ \A i \in 1..Len(a) : CountOf(a, a[i]) = CountOf(b, a[i])

\* C15: updatePriority(id, p) with id in pending returns true; pending then
\* holds the goals it held, one goal with that id now with priority p and
\* every other field of every goal as before, sorted by (priority,
\* createdAt); completed is unchanged.
C15_UpdatePriority ==
    [][(lastOp'.name = "updatePriority" /\ InPending(lastOp'.id)) =>
          /\ lastOp'.ret = "true"
          /\ \E k \in 1..Len(goals) :
                /\ goals[k].id = lastOp'.id
                /\ SameEntries(goals',
                       SubSeq(goals, 1, k - 1)
                         \o <<[goals[k] EXCEPT !.priority = lastOp'.pri]>>
                         \o SubSeq(goals, k + 1, Len(goals)))
          /\ \A i \in 1..(Len(goals') - 1) :
                \/ goals'[i].priority < goals'[i + 1].priority
                \/ /\ goals'[i].priority = goals'[i + 1].priority
                   /\ goals'[i].createdAt <= goals'[i + 1].createdAt
          /\ completedGoals' = completedGoals]_vars

\* an updatePriority has moved the goal it changed to the other end of three
\* pending goals
C15_Witness ==
    /\ lastOp.name = "updatePriority" /\ lastOp.ret = "true"
    /\ Len(goals) = 3
    /\ goals[3].id = lastOp.id /\ goals[3].priority = lastOp.pri
    /\ goals[1].id # lastOp.id /\ goals[2].id # lastOp.id
    /\ goals[1].priority < lastOp.pri

\* every goal in pending has completed = false and every goal in completed
\* has completed = true, in memory and in the stored values
FlagsMatch ==
    /\ \A i \in 1..Len(goals) : ~goals[i].completed
    /\ \A i \in 1..Len(completedGoals) : completedGoals[i].completed
    /\ \A i \in 1..Len(store.sgt_goals.items) :
          ~member(store.sgt_goals.items[i], "completed")
    /\ \A i \in 1..Len(store.sgt_completed.items) :
          member(store.sgt_completed.items[i], "completed")

\* C16: from an empty store, in every state the completed flag of a goal
\* says which collection holds it, in memory and in the store; and pending,
\* where the flag is false, takes a goal in by addGoal only, so that no
\* goal comes back from completed.
C16_Flags ==
    /\ []FlagsMatch
    /\ [][Len(goals') > Len(goals) => lastOp'.name = "addGoal"]_vars

\* after a reload, one goal pending and two completed, as stored
C16_Witness ==
    /\ lastOp.name = "construct"
    /\ Len(goals) = 1 /\ Len(completedGoals) = 2
    /\ Len(store.sgt_goals.items) = 1 /\ Len(store.sgt_completed.items) = 2

\* the ids of the goals a tracker constructed from the stored values holds
StoredIds(st) ==
    LET t == loadFromStorage(st)
    IN  {t.goals[i].id : i \in 1..Len(t.goals)}
          \cup {t.completed[i].id : i \in 1..Len(t.completed)}

\* C17: with two pages on one store, after a mutating operation of one page
\* a tracker constructed from the store holds that page's collections and
\* nothing else: each save replaces both stored values with the saving
\* page's own.  (The state in which a goal of the other page is lost from
\* the store is C17_Witness.)
C17_LastWriterWins ==
    [][(\/ lastOp'.name \in {"addGoal", "clearCompleted"}
        \/ /\ lastOp'.name \in {"completeGoalById", "deleteGoalById", "updatePriority"}
           /\ lastOp'.ret = "true") =>
          loadFromStorage(store') =
              [goals |-> goals', type |-> completedType',
               completed |-> completedGoals']]_vars

\* the page in front has just added g_a; the other page holds g_b, which it
\* added and did not delete, and neither the store nor a tracker constructed
\* from it has g_b
C17_Witness ==
    /\ lastOp.name = "addGoal" /\ lastOp.id = "g_a"
    /\ \E i \in 1..Len(other.goals) : other.goals[i].id = "g_b"
    /\ ~InPending("g_b") /\ ~InCompleted("g_b")
    /\ "g_b" \notin StoredIds(store)
    /\ "g_a" \in StoredIds(store)

\* C18 (as claimed): whatever the store held at construction, completed is
\* a sequence, and completeGoalById never ends in an error that leaves the
\* goal in neither collection.
C18_BothSequences ==
    /\ completedType = "array"
    /\ lastOp.name = "completeGoalById" =>
          /\ lastOp.ret # "throw"
          /\ lastOp.ret = "true" => InCompleted(lastOp.id)

\* C19: construction, searchByTitle, totals, and completeGoalById,
\* deleteGoalById and updatePriority when they return false leave both
\* stored values as they were.
C19_ReadsDoNotWrite ==
    [][(\/ lastOp'.name \in {"construct", "searchByTitle", "totals"}
        \/ /\ lastOp'.name \in {"completeGoalById", "deleteGoalById", "updatePriority"}
           /\ lastOp'.ret = "false") =>
          /\ store'.sgt_goals = store.sgt_goals
          /\ store'.sgt_completed = store.sgt_completed]_vars

\* deleteGoalById has returned false over stored values that a save of the
\* tracker's collections would have changed
C19_Witness ==
    /\ lastOp.name = "deleteGoalById" /\ lastOp.ret = "false"
    /\ store # saveToStorage(goals, completedType, completedGoals)

\* pending was re-sorted at construction and searched since, and the store
\* still holds it out of order
C19_WitnessResort ==
    /\ lastOp.name = "searchByTitle"
    /\ store.sgt_goals = StoredUnsorted
    /\ Len(goals) = 2 /\ goals[1].id = "g_b" /\ goals[2].id = "g_a"

====
